---- MODULE Spec2Model ----
(***************************************************************************)
(* Surplus-Med decision system: the eligibility engine                     *)
(* (decision_system/eligibility.py) over the EligibilityRule table and a   *)
(* Supply with its evidence (decision_system/models.py).                   *)
(*                                                                         *)
(* Encodings.  A nullable column is a sequence of length 0 (None) or 1     *)
(* (the value).  A calendar date is its day number.  A message is a record *)
(* [kind, nums, strs]: the f-string's fixed text and the values it         *)
(* interpolates.  An evidence_type is the sequence of its '_'-separated    *)
(* parts, so that startswith('PHOTO_') is a test on the first part.        *)
(***************************************************************************)
EXTENDS Integers, Sequences, FiniteSets, TLC

VARIABLES
    rule_table,    \* EligibilityRule rows, in insertion order
    supply,        \* the Supply under evaluation, with its evidence_set
    today,         \* timezone.now().date()
    pc,            \* position of the run_eligibility_check call
    engine_rules,  \* EligibilityEngine.rules: None until the queryset is iterated
    idx,           \* position of the for loop in evaluate
    result,        \* the EligibilityResult under construction
    ret,           \* what run_eligibility_check returned
    posted,        \* the supply_decide request: its method and its POST fields
    decisions,     \* Decision rows
    audit_log,     \* AuditLog rows
    other,         \* a second run_eligibility_check call, on its own supply
    table_versions \* history: the values rule_table has had

vars == <<rule_table, supply, today, pc, engine_rules, idx, result, ret,
          posted, decisions, audit_log, other, table_versions>>

\* what one run_eligibility_check call has no statement for
surroundings == <<posted, decisions, audit_log, other, table_versions>>

----------------------------------------------------------------------------
(* Bounds *)

MaxRules == 2

MaxQuantity == 5

MaxEvidence == 2

\* how many values the rule table takes while the admin edits it
MaxTableVersions == 3

\* how many midnights pass while one evaluation runs
MaxMidnights == 1

\* how many decisions are recorded for the supply
MaxDecisions == 2

(* Program constant: the short-shelf-life threshold of _add_warnings *)
ShortShelfLifeDays == 90

----------------------------------------------------------------------------
(* Python values *)

None == <<>>

Some(x) == <<x>>

\* bool(x) of an optional integer: None and 0 are falsy
TruthyInt(o) == o # None /\ o[1] # 0

\* bool(x) of an optional JSON list: None and [] are falsy
TruthyList(o) == o # None /\ Len(o[1]) > 0

\* x in list
InList(x, l) == \E i \in 1..Len(l) : l[i] = x

Msg(k, n, s) == [kind |-> k, nums |-> n, strs |-> s]

----------------------------------------------------------------------------
(* models.py *)

RULE_TYPE_CHOICES ==
    {"EXPIRY_DATE", "CATEGORY", "PACKAGING", "QUANTITY", "DOCUMENTATION", "CUSTOM"}

\* a rule_type string outside RULE_TYPE_CHOICES (the column is a CharField)
UnknownType == "STORAGE"

\* string order of the rule_type values
TypeRank(t) ==
    CASE t = "CATEGORY" -> 1
      [] t = "CUSTOM" -> 2
      [] t = "DOCUMENTATION" -> 3
      [] t = "EXPIRY_DATE" -> 4
      [] t = "PACKAGING" -> 5
      [] t = "QUANTITY" -> 6
      [] OTHER -> 7

\* rule names, in string order
NameList == <<"rule-a", "rule-b", "rule-c", "rule-d">>

NameRank(n) == CHOOSE i \in 1..Len(NameList) : NameList[i] = n

\* EligibilityRule.Meta.ordering = ['rule_type', 'name']
RuleBefore(a, b) ==
    \/ TypeRank(a.rule_type) < TypeRank(b.rule_type)
    \/ /\ TypeRank(a.rule_type) = TypeRank(b.rule_type)
       /\ NameRank(a.name) <= NameRank(b.name)

RECURSIVE InsertRule(_, _)
InsertRule(r, s) ==
    IF s = <<>> THEN <<r>>
    ELSE IF RuleBefore(r, Head(s)) THEN <<r>> \o s
    ELSE <<Head(s)>> \o InsertRule(r, Tail(s))

RECURSIVE OrderRules(_)
OrderRules(s) ==
    IF s = <<>> THEN <<>> ELSE InsertRule(Head(s), OrderRules(Tail(s)))

IsActive(r) == r.is_active

\* the query with the is_active filter dropped: EligibilityRule.objects.all()
ActiveRules_unfiltered(table) == OrderRules(table)

\* EligibilityRule.objects.filter(is_active=True), evaluated
ActiveRules(table) == OrderRules(SelectSeq(table, IsActive))

\* Supply.days_until_expiry
days_until_expiry(s, now) ==
    IF s.expiry_date # None THEN Some(s.expiry_date[1] - now) ELSE None

\* Supply.is_expired
is_expired(s, now) ==
    IF days_until_expiry(s, now) # None
    THEN days_until_expiry(s, now)[1] < 0
    ELSE TRUE

\* Supply.get_packaging_status_display
PackagingDisplay(p) ==
    CASE p = "SEALED_UNOPENED" -> "Sealed & Unopened"
      [] p = "OPENED_INTACT" -> "Opened but Intact"
      [] p = "MINOR_DAMAGE" -> "Minor Damage"
      [] p = "SIGNIFICANT_DAMAGE" -> "Significant Damage"
      [] OTHER -> p

----------------------------------------------------------------------------
(* eligibility.py: EligibilityCheck, EligibilityResult *)

EligibilityCheck(n, p, m, b) ==
    [name |-> n, passed |-> p, message |-> m, is_blocking |-> b]

EmptyResult == [checks |-> <<>>, warnings |-> <<>>]

\* add_check putting the check at the front: self.checks.insert(0, check)
add_check_at_front(res, c) == [res EXCEPT !.checks = <<c>> \o @]

add_check(res, c) == [res EXCEPT !.checks = Append(@, c)]

add_warning(res, w) == [res EXCEPT !.warnings = Append(@, w)]

RECURSIVE AllBlockingPassed(_)
AllBlockingPassed(cs) ==
    IF cs = <<>> THEN TRUE
    ELSE IF Head(cs).is_blocking /\ ~Head(cs).passed THEN FALSE
    ELSE AllBlockingPassed(Tail(cs))

\* is_eligible with the is_blocking filter dropped: all(check.passed for check in checks)
is_eligible_without_blocking_filter(res) ==
    \A i \in 1..Len(res.checks) : res.checks[i].passed

\* EligibilityResult.is_eligible
is_eligible(res) == AllBlockingPassed(res.checks)

RECURSIVE CountPassed(_)
CountPassed(cs) ==
    IF cs = <<>> THEN 0
    ELSE (IF Head(cs).passed THEN 1 ELSE 0) + CountPassed(Tail(cs))

\* EligibilityResult.get_summary
get_summary(res) ==
    LET passed == CountPassed(res.checks)
        total == Len(res.checks)
    IN IF is_eligible(res)
       THEN Msg("Eligible: Passed {passed}/{total} checks", <<passed, total>>, <<>>)
       ELSE Msg("Ineligible: Failed {total - passed} blocking checks",
                <<total - passed>>, <<>>)

\* EligibilityCheck.to_dict
check_to_dict(c) ==
    [name |-> c.name, passed |-> c.passed, message |-> c.message,
     is_blocking |-> c.is_blocking]

\* to_dict without the summary entry
to_dict_without_summary(res) ==
    [is_eligible |-> is_eligible(res),
     checks |-> [i \in 1..Len(res.checks) |-> check_to_dict(res.checks[i])],
     warnings |-> res.warnings]

\* EligibilityResult.to_dict
to_dict(res) ==
    [is_eligible |-> is_eligible(res),
     checks |-> [i \in 1..Len(res.checks) |-> check_to_dict(res.checks[i])],
     warnings |-> res.warnings,
     summary |-> get_summary(res)]

----------------------------------------------------------------------------
(* eligibility.py: EligibilityEngine, the per-type checkers *)

\* _check_expiry_date with the shelf-life test placed before the is_expired test
_check_expiry_date_shelf_life_first(s, rule, now) ==
    IF TruthyInt(rule.min_shelf_life_days) /\ days_until_expiry(s, now) # None
       /\ days_until_expiry(s, now)[1] < rule.min_shelf_life_days[1]
    THEN EligibilityCheck(rule.name, FALSE,
             Msg("Insufficient shelf life: {days_remaining} days remaining (minimum: {min_shelf_life_days} days)",
                 <<days_until_expiry(s, now)[1], rule.min_shelf_life_days[1]>>, <<>>),
             rule.is_blocking)
    ELSE IF is_expired(s, now)
    THEN EligibilityCheck(rule.name, FALSE,
             Msg("Supply is expired (expiry date: {expiry_date})", s.expiry_date, <<>>),
             rule.is_blocking)
    ELSE EligibilityCheck(rule.name, TRUE,
             Msg("Valid expiry date: {days_until_expiry} days remaining",
                 days_until_expiry(s, now), <<>>),
             rule.is_blocking)

\* _check_expiry_date with days_remaining <= min_shelf_life_days
_check_expiry_date_le(s, rule, now) ==
    IF is_expired(s, now)
    THEN EligibilityCheck(rule.name, FALSE,
             Msg("Supply is expired (expiry date: {expiry_date})", s.expiry_date, <<>>),
             rule.is_blocking)
    ELSE IF TruthyInt(rule.min_shelf_life_days)
            /\ days_until_expiry(s, now)[1] <= rule.min_shelf_life_days[1]
    THEN EligibilityCheck(rule.name, FALSE,
             Msg("Insufficient shelf life: {days_remaining} days remaining (minimum: {min_shelf_life_days} days)",
                 <<days_until_expiry(s, now)[1], rule.min_shelf_life_days[1]>>, <<>>),
             rule.is_blocking)
    ELSE EligibilityCheck(rule.name, TRUE,
             Msg("Valid expiry date: {days_until_expiry} days remaining",
                 days_until_expiry(s, now), <<>>),
             rule.is_blocking)

\* _check_expiry_date letting a supply without expiry date pass
_check_expiry_date_passes_without_date(s, rule, now) ==
    IF s.expiry_date = None
    THEN EligibilityCheck(rule.name, TRUE,
             Msg("Valid expiry date: {days_until_expiry} days remaining", None, <<>>),
             rule.is_blocking)
    ELSE IF is_expired(s, now)
    THEN EligibilityCheck(rule.name, FALSE,
             Msg("Supply is expired (expiry date: {expiry_date})", s.expiry_date, <<>>),
             rule.is_blocking)
    ELSE IF TruthyInt(rule.min_shelf_life_days)
            /\ days_until_expiry(s, now)[1] < rule.min_shelf_life_days[1]
    THEN EligibilityCheck(rule.name, FALSE,
             Msg("Insufficient shelf life: {days_remaining} days remaining (minimum: {min_shelf_life_days} days)",
                 <<days_until_expiry(s, now)[1], rule.min_shelf_life_days[1]>>, <<>>),
             rule.is_blocking)
    ELSE EligibilityCheck(rule.name, TRUE,
             Msg("Valid expiry date: {days_until_expiry} days remaining",
                 days_until_expiry(s, now), <<>>),
             rule.is_blocking)

\* EligibilityEngine._check_expiry_date
_check_expiry_date(s, rule, now) ==
    IF is_expired(s, now)
    THEN EligibilityCheck(rule.name, FALSE,
             Msg("Supply is expired (expiry date: {expiry_date})", s.expiry_date, <<>>),
             rule.is_blocking)
    ELSE IF TruthyInt(rule.min_shelf_life_days)
            /\ days_until_expiry(s, now)[1] < rule.min_shelf_life_days[1]
    THEN EligibilityCheck(rule.name, FALSE,
             Msg("Insufficient shelf life: {days_remaining} days remaining (minimum: {min_shelf_life_days} days)",
                 <<days_until_expiry(s, now)[1], rule.min_shelf_life_days[1]>>, <<>>),
             rule.is_blocking)
    ELSE EligibilityCheck(rule.name, TRUE,
             Msg("Valid expiry date: {days_until_expiry} days remaining",
                 days_until_expiry(s, now), <<>>),
             rule.is_blocking)

\* _check_category testing "allowed_categories is None" instead of "not allowed_categories"
_check_category_is_none(s, rule) ==
    IF rule.allowed_categories = None
    THEN EligibilityCheck(rule.name, TRUE,
             Msg("No category restrictions", <<>>, <<>>), rule.is_blocking)
    ELSE IF ~InList(s.category, rule.allowed_categories[1])
    THEN EligibilityCheck(rule.name, FALSE,
             Msg("Category '{category}' is not in allowed list: {allowed}",
                 <<>>, <<s.category>> \o rule.allowed_categories[1]),
             rule.is_blocking)
    ELSE EligibilityCheck(rule.name, TRUE,
             Msg("Category '{category}' is allowed", <<>>, <<s.category>>),
             rule.is_blocking)

\* EligibilityEngine._check_category
_check_category(s, rule) ==
    IF ~TruthyList(rule.allowed_categories)
    THEN EligibilityCheck(rule.name, TRUE,
             Msg("No category restrictions", <<>>, <<>>), rule.is_blocking)
    ELSE IF ~InList(s.category, rule.allowed_categories[1])
    THEN EligibilityCheck(rule.name, FALSE,
             Msg("Category '{category}' is not in allowed list: {allowed}",
                 <<>>, <<s.category>> \o rule.allowed_categories[1]),
             rule.is_blocking)
    ELSE EligibilityCheck(rule.name, TRUE,
             Msg("Category '{category}' is allowed", <<>>, <<s.category>>),
             rule.is_blocking)

\* _check_packaging testing "required_packaging_status is None" instead of "not ..."
_check_packaging_is_none(s, rule) ==
    IF rule.required_packaging_status = None
    THEN EligibilityCheck(rule.name, TRUE,
             Msg("No packaging requirements", <<>>, <<>>), rule.is_blocking)
    ELSE IF ~InList(s.packaging_status, rule.required_packaging_status[1])
    THEN EligibilityCheck(rule.name, FALSE,
             Msg("Packaging status '{packaging_status}' does not meet requirements",
                 <<>>, <<s.packaging_status>>),
             rule.is_blocking)
    ELSE EligibilityCheck(rule.name, TRUE,
             Msg("Packaging status '{packaging_status}' is acceptable",
                 <<>>, <<s.packaging_status>>),
             rule.is_blocking)

\* EligibilityEngine._check_packaging
_check_packaging(s, rule) ==
    IF ~TruthyList(rule.required_packaging_status)
    THEN EligibilityCheck(rule.name, TRUE,
             Msg("No packaging requirements", <<>>, <<>>), rule.is_blocking)
    ELSE IF ~InList(s.packaging_status, rule.required_packaging_status[1])
    THEN EligibilityCheck(rule.name, FALSE,
             Msg("Packaging status '{packaging_status}' does not meet requirements",
                 <<>>, <<s.packaging_status>>),
             rule.is_blocking)
    ELSE EligibilityCheck(rule.name, TRUE,
             Msg("Packaging status '{packaging_status}' is acceptable",
                 <<>>, <<s.packaging_status>>),
             rule.is_blocking)

\* EligibilityEngine._check_quantity
_check_quantity(s, rule) ==
    IF TruthyInt(rule.min_quantity) /\ s.quantity < rule.min_quantity[1]
    THEN EligibilityCheck(rule.name, FALSE,
             Msg("Quantity {quantity} below minimum {min_quantity}",
                 <<s.quantity, rule.min_quantity[1]>>, <<>>),
             rule.is_blocking)
    ELSE IF TruthyInt(rule.max_quantity) /\ s.quantity > rule.max_quantity[1]
    THEN EligibilityCheck(rule.name, FALSE,
             Msg("Quantity {quantity} exceeds maximum {max_quantity}",
                 <<s.quantity, rule.max_quantity[1]>>, <<>>),
             rule.is_blocking)
    ELSE EligibilityCheck(rule.name, TRUE,
             Msg("Quantity {quantity} is within acceptable limits",
                 <<s.quantity>>, <<>>),
             rule.is_blocking)

\* evidence_type.startswith('PHOTO_')
StartsWithPhoto(t) == Len(t) >= 2 /\ t[1] = "PHOTO"

\* supply.evidence_set.filter(evidence_type__startswith='PHOTO_').exists()
HasPhotoEvidence(s) ==
    \E i \in 1..Len(s.evidence_set) : StartsWithPhoto(s.evidence_set[i])

\* _check_documentation whose "no evidence" check omits is_blocking=rule.is_blocking,
\* so that EligibilityCheck's default is_blocking=True applies
_check_documentation_default_blocking(s, rule) ==
    LET evidence_count == Len(s.evidence_set)
    IN IF evidence_count = 0
       THEN EligibilityCheck(rule.name, FALSE,
                Msg("No evidence documentation provided", <<>>, <<>>),
                TRUE)
       ELSE IF ~HasPhotoEvidence(s)
       THEN EligibilityCheck(rule.name, IF rule.is_blocking THEN FALSE ELSE TRUE,
                Msg("No photographic evidence provided", <<>>, <<>>),
                rule.is_blocking)
       ELSE EligibilityCheck(rule.name, TRUE,
                Msg("{evidence_count} evidence items provided",
                    <<evidence_count>>, <<>>),
                rule.is_blocking)

\* _check_documentation whose "no photo" check has passed=False for every rule
_check_documentation_no_photo_fails(s, rule) ==
    LET evidence_count == Len(s.evidence_set)
    IN IF evidence_count = 0
       THEN EligibilityCheck(rule.name, FALSE,
                Msg("No evidence documentation provided", <<>>, <<>>),
                rule.is_blocking)
       ELSE IF ~HasPhotoEvidence(s)
       THEN EligibilityCheck(rule.name, FALSE,
                Msg("No photographic evidence provided", <<>>, <<>>),
                rule.is_blocking)
       ELSE EligibilityCheck(rule.name, TRUE,
                Msg("{evidence_count} evidence items provided",
                    <<evidence_count>>, <<>>),
                rule.is_blocking)

\* EligibilityEngine._check_documentation
_check_documentation(s, rule) ==
    LET evidence_count == Len(s.evidence_set)
    IN IF evidence_count = 0
       THEN EligibilityCheck(rule.name, FALSE,
                Msg("No evidence documentation provided", <<>>, <<>>),
                rule.is_blocking)
       ELSE IF ~HasPhotoEvidence(s)
       THEN EligibilityCheck(rule.name, IF rule.is_blocking THEN FALSE ELSE TRUE,
                Msg("No photographic evidence provided", <<>>, <<>>),
                rule.is_blocking)
       ELSE EligibilityCheck(rule.name, TRUE,
                Msg("{evidence_count} evidence items provided",
                    <<evidence_count>>, <<>>),
                rule.is_blocking)

\* the loop body whose else branch reports the rule as a failed check instead of skipping it
DispatchRule_unknown_fails(s, rule, now) ==
    IF rule.rule_type = "EXPIRY_DATE" THEN <<_check_expiry_date(s, rule, now)>>
    ELSE IF rule.rule_type = "CATEGORY" THEN <<_check_category(s, rule)>>
    ELSE IF rule.rule_type = "PACKAGING" THEN <<_check_packaging(s, rule)>>
    ELSE IF rule.rule_type = "QUANTITY" THEN <<_check_quantity(s, rule)>>
    ELSE IF rule.rule_type = "DOCUMENTATION" THEN <<_check_documentation(s, rule)>>
    ELSE <<EligibilityCheck(rule.name, FALSE,
               Msg("Unknown rule type", <<>>, <<rule.rule_type>>), rule.is_blocking)>>

\* the body of evaluate's for loop: the checks one rule adds (none or one)
DispatchRule(s, rule, now) ==
    IF rule.rule_type = "EXPIRY_DATE" THEN <<_check_expiry_date(s, rule, now)>>
    ELSE IF rule.rule_type = "CATEGORY" THEN <<_check_category(s, rule)>>
    ELSE IF rule.rule_type = "PACKAGING" THEN <<_check_packaging(s, rule)>>
    ELSE IF rule.rule_type = "QUANTITY" THEN <<_check_quantity(s, rule)>>
    ELSE IF rule.rule_type = "DOCUMENTATION" THEN <<_check_documentation(s, rule)>>
    ELSE <<>>

\* _add_warnings that adds its warnings only to a result that is eligible
_add_warnings_only_if_eligible(s, res, now) ==
    LET w1 == IF TruthyInt(days_until_expiry(s, now))
                 /\ days_until_expiry(s, now)[1] < ShortShelfLifeDays
              THEN add_warning(res,
                       Msg("Short shelf life: Only {days_until_expiry} days until expiry. High-priority redistribution recommended.",
                           days_until_expiry(s, now), <<>>))
              ELSE res
        w2 == IF s.packaging_status \in {"OPENED_INTACT", "MINOR_DAMAGE", "SIGNIFICANT_DAMAGE"}
              THEN add_warning(w1,
                       Msg("Packaging integrity concern: {packaging_status_display}. Additional review recommended.",
                           <<>>, <<PackagingDisplay(s.packaging_status)>>))
              ELSE w1
        w3 == IF s.storage_conditions = "UNKNOWN"
              THEN add_warning(w2,
                       Msg("Storage conditions unknown. Verify with submitter before final decision.",
                           <<>>, <<>>))
              ELSE w2
        w4 == IF s.batch_number = ""
              THEN add_warning(w3,
                       Msg("No batch number provided. Traceability may be limited.",
                           <<>>, <<>>))
              ELSE w3
    IN IF is_eligible(res) THEN w4 ELSE res

\* EligibilityEngine._add_warnings
_add_warnings(s, res, now) ==
    LET w1 == IF TruthyInt(days_until_expiry(s, now))
                 /\ days_until_expiry(s, now)[1] < ShortShelfLifeDays
              THEN add_warning(res,
                       Msg("Short shelf life: Only {days_until_expiry} days until expiry. High-priority redistribution recommended.",
                           days_until_expiry(s, now), <<>>))
              ELSE res
        w2 == IF s.packaging_status \in {"OPENED_INTACT", "MINOR_DAMAGE", "SIGNIFICANT_DAMAGE"}
              THEN add_warning(w1,
                       Msg("Packaging integrity concern: {packaging_status_display}. Additional review recommended.",
                           <<>>, <<PackagingDisplay(s.packaging_status)>>))
              ELSE w1
        w3 == IF s.storage_conditions = "UNKNOWN"
              THEN add_warning(w2,
                       Msg("Storage conditions unknown. Verify with submitter before final decision.",
                           <<>>, <<>>))
              ELSE w2
        w4 == IF s.batch_number = ""
              THEN add_warning(w3,
                       Msg("No batch number provided. Traceability may be limited.",
                           <<>>, <<>>))
              ELSE w3
    IN w4

\* run_eligibility_check's return value: (result.is_eligible, result.to_dict())
run_eligibility_check_return(res) == <<is_eligible(res), to_dict(res)>>

----------------------------------------------------------------------------
(* Inputs: the rows the admin can store and the supplies supply_submit can  *)
(* create.  Each input class varies the rule parameters and the supply      *)
(* attributes one checker reads; the mixed class combines all rule types.   *)
(* supply_submit stores int(POST['quantity']) without running the field's   *)
(* validators, so a quantity of 0 is a stored value.  An expiry_date of     *)
(* None is that of a Supply object that was not loaded from the table.      *)

SeqsUpTo(S, n) == UNION {[1..k -> S] : k \in 0..n}

RuleRow(t, blocking, msl, cats, packs, minq, maxq) ==
    [name |-> "", rule_type |-> t, is_active |-> TRUE, is_blocking |-> blocking,
     min_shelf_life_days |-> msl, allowed_categories |-> cats,
     required_packaging_status |-> packs, min_quantity |-> minq,
     max_quantity |-> maxq]

\* the i-th row of a table is named NameList[i]
NameRows(rows) == [i \in 1..Len(rows) |-> [rows[i] EXCEPT !.name = NameList[i]]]

ExpiryRules ==
    {RuleRow("EXPIRY_DATE", b, m, None, None, None, None) :
        b \in BOOLEAN, m \in {None, Some(0), Some(30), Some(60)}}

CategoryLists ==
    {None, Some(<<>>), Some(<<"PPE", "SURGICAL">>),
     Some(<<"PPE", "SURGICAL", "DIAGNOSTIC", "WOUND_CARE", "EQUIPMENT", "OTHER_SUPPLIES">>)}

CategoryRules ==
    {RuleRow("CATEGORY", b, None, c, None, None, None) :
        b \in BOOLEAN, c \in CategoryLists}

PackagingLists ==
    {None, Some(<<>>), Some(<<"SEALED_UNOPENED">>),
     Some(<<"SEALED_UNOPENED", "OPENED_INTACT", "MINOR_DAMAGE">>)}

PackagingRules ==
    {RuleRow("PACKAGING", b, None, None, p, None, None) :
        b \in BOOLEAN, p \in PackagingLists}

QuantityRules ==
    {RuleRow("QUANTITY", b, None, None, None, lo, hi) :
        b \in BOOLEAN, lo \in {None, Some(0), Some(1)}, hi \in {None, Some(0), Some(2)}}

DocumentationRules ==
    {RuleRow("DOCUMENTATION", b, None, None, None, None, None) : b \in BOOLEAN}

\* rows of a type evaluate does not dispatch on, without and with parameters
SkippedRules ==
    {RuleRow(t, b, None, None, None, None, None) :
        t \in {"CUSTOM", UnknownType}, b \in BOOLEAN}
    \cup
    {RuleRow(t, b, Some(60), Some(<<"SURGICAL">>), Some(<<"MINOR_DAMAGE">>), Some(9), Some(0)) :
        t \in {"CUSTOM", UnknownType}, b \in BOOLEAN}

\* the rows of seed_data.py (CATEGORY narrowed to two categories), blocking or not
SeedLikeRules ==
    {RuleRow("EXPIRY_DATE", b, Some(60), None, None, None, None) : b \in BOOLEAN}
    \cup {RuleRow("CATEGORY", b, None, Some(<<"PPE", "SURGICAL">>), None, None, None) : b \in BOOLEAN}
    \cup {RuleRow("PACKAGING", b, None, None,
                  Some(<<"SEALED_UNOPENED", "OPENED_INTACT", "MINOR_DAMAGE">>), None, None) : b \in BOOLEAN}
    \cup {RuleRow("DOCUMENTATION", b, None, None, None, None, None) : b \in BOOLEAN}
    \cup {RuleRow("QUANTITY", b, None, None, None, Some(1), None) : b \in BOOLEAN}

Deactivated(rows) == {[r EXCEPT !.is_active = FALSE] : r \in rows}

MixedRules ==
    SeedLikeRules
    \cup {RuleRow("CUSTOM", TRUE, Some(60), Some(<<"SURGICAL">>), Some(<<"MINOR_DAMAGE">>), Some(9), Some(0))}
    \cup Deactivated({RuleRow("QUANTITY", TRUE, None, None, None, Some(1), None),
                      RuleRow("DOCUMENTATION", FALSE, None, None, None, None, None)})

SkipClassRules ==
    SkippedRules
    \cup {RuleRow("QUANTITY", TRUE, None, None, None, Some(1), None),
          RuleRow("CATEGORY", FALSE, None, Some(<<"PPE", "SURGICAL">>), None, None, None)}

PhotoLabel == <<"PHOTO", "LABEL">>

DocumentCoa == <<"DOCUMENT", "COA">>

EvidenceTypes == {PhotoLabel, DocumentCoa}

DefaultSupply ==
    [category |-> "PPE", quantity |-> 5, expiry_date |-> Some(120),
     batch_number |-> "LOT-1", packaging_status |-> "SEALED_UNOPENED",
     storage_conditions |-> "ROOM_TEMP", evidence_set |-> <<PhotoLabel>>,
     decision_status |-> "PENDING_INITIAL"]

ExpiryDates ==
    {None} \cup {Some(d) : d \in {-1, 0, 1, 30, 31, 45, 60, 89, 90, 91}}

ExpirySupplies == {[DefaultSupply EXCEPT !.expiry_date = e] : e \in ExpiryDates}

CategorySupplies ==
    {[DefaultSupply EXCEPT !.category = c] : c \in {"PPE", "SURGICAL", "EQUIPMENT"}}

PackagingSupplies ==
    {[DefaultSupply EXCEPT !.packaging_status = p] :
        p \in {"SEALED_UNOPENED", "OPENED_INTACT", "MINOR_DAMAGE", "SIGNIFICANT_DAMAGE"}}

QuantitySupplies ==
    {[DefaultSupply EXCEPT !.quantity = q] : q \in 0..MaxQuantity}

DocumentationSupplies ==
    {[DefaultSupply EXCEPT !.evidence_set = e] : e \in SeqsUpTo(EvidenceTypes, MaxEvidence)}

MixedSupplies ==
    {[DefaultSupply EXCEPT !.category = c, !.quantity = q, !.expiry_date = e,
                           !.packaging_status = p, !.evidence_set = ev] :
        c \in {"PPE", "EQUIPMENT"}, q \in {0, 5}, e \in {Some(30), Some(120)},
        p \in {"SEALED_UNOPENED", "SIGNIFICANT_DAMAGE"},
        ev \in {<<>>, <<DocumentCoa>>, <<PhotoLabel>>}}

SkipClassSupplies ==
    {[DefaultSupply EXCEPT !.category = c, !.quantity = q] :
        c \in {"PPE", "EQUIPMENT"}, q \in {0, 5}}

\* rows for the inputs that vary the attributes _add_warnings reads
WarningClassRules ==
    {RuleRow("EXPIRY_DATE", TRUE, Some(60), None, None, None, None),
     RuleRow("PACKAGING", TRUE, None, None,
             Some(<<"SEALED_UNOPENED", "OPENED_INTACT", "MINOR_DAMAGE">>), None, None),
     RuleRow("CATEGORY", TRUE, None, Some(<<"SURGICAL">>), None, None, None),
     RuleRow("DOCUMENTATION", FALSE, None, None, None, None, None)}

WarningClassSupplies ==
    {[DefaultSupply EXCEPT !.expiry_date = e, !.packaging_status = p,
                           !.storage_conditions = st, !.batch_number = b] :
        e \in {None, Some(-1), Some(0), Some(45), Some(89), Some(90)},
        p \in {"SEALED_UNOPENED", "OPENED_INTACT", "MINOR_DAMAGE", "SIGNIFICANT_DAMAGE"},
        st \in {"ROOM_TEMP", "UNKNOWN"},
        b \in {"", "LOT-1"}}

InputClass(rows, supplies, days) ==
    \E t \in SeqsUpTo(rows, MaxRules), s \in supplies, d \in days :
        /\ rule_table = NameRows(t)
        /\ supply = s
        /\ today = d

----------------------------------------------------------------------------
(* The state machine: one run_eligibility_check(supply) call *)

\* a supply_decide request with every required field filled in
DecideRequest(d) ==
    [method |-> "POST", decision |-> d, reason_code |-> "RC-1", justification |-> "because"]

\* the decisions a request posts: Decision.DECISION_CHOICES, and any other
\* string, which nothing in supply_decide refuses
PostedDecisions == {"ACCEPTED", "REVIEW", "REJECTED", "ON_HOLD"}

\* the ReasonCode rows
ReasonCodes == {"RC-1"}

\* requests: complete ones, a GET, one with each required field empty, and
\* one naming a reason code that does not exist
Requests ==
    {DecideRequest(d) : d \in PostedDecisions}
    \cup {[DecideRequest("ACCEPTED") EXCEPT !.method = "GET"],
          [DecideRequest("ACCEPTED") EXCEPT !.decision = ""],
          [DecideRequest("REJECTED") EXCEPT !.reason_code = ""],
          [DecideRequest("REJECTED") EXCEPT !.justification = ""],
          [DecideRequest("REVIEW") EXCEPT !.reason_code = "RC-9"]}

\* a call that has not started
IdleCall(s) ==
    [pc |-> "idle", supply |-> s, engine_rules |-> None, idx |-> 1,
     result |-> EmptyResult, ret |-> None]

\* before the call: nothing decided or logged yet
InitCall ==
    /\ pc = "idle"
    /\ engine_rules = None
    /\ idx = 1
    /\ result = EmptyResult
    /\ ret = None
    /\ decisions = <<>>
    /\ audit_log = <<>>
    /\ table_versions = {rule_table}

Init ==
    /\ \/ InputClass(ExpiryRules, ExpirySupplies, {0, 1})
       \/ InputClass(CategoryRules, CategorySupplies, {0})
       \/ InputClass(PackagingRules, PackagingSupplies, {0})
       \/ InputClass(QuantityRules, QuantitySupplies, {0})
       \/ InputClass(DocumentationRules, DocumentationSupplies, {0})
       \/ InputClass(SkipClassRules, SkipClassSupplies, {0})
       \/ InputClass(MixedRules, MixedSupplies, {0})
       \/ InputClass(WarningClassRules, WarningClassSupplies, {0})
    /\ InitCall
    /\ posted = DecideRequest("ACCEPTED")
    /\ other = IdleCall(supply)

\* engine = EligibilityEngine(): self.rules is a lazy queryset, not yet evaluated
Construct ==
    /\ pc = "idle"
    /\ pc' = "constructed"
    /\ engine_rules' = None
    /\ UNCHANGED <<rule_table, supply, today, idx, result, ret>>
    /\ UNCHANGED surroundings

\* evaluate: result = EligibilityResult(); the for statement iterates self.rules,
\* which runs the query once and keeps its rows
BeginEvaluate ==
    /\ pc = "constructed"
    /\ result' = EmptyResult
    /\ engine_rules' = IF engine_rules = None
                       THEN Some(ActiveRules(rule_table))
                       ELSE engine_rules
    /\ idx' = 1
    /\ pc' = "loop"
    /\ UNCHANGED <<rule_table, supply, today, ret>>
    /\ UNCHANGED surroundings

\* an iteration that reads its rule from a new query of the table
LoopBody_requery ==
    /\ pc = "loop"
    /\ idx <= Len(engine_rules[1])
    /\ result' = LET now_active == ActiveRules(rule_table)
                     check == IF idx <= Len(now_active)
                              THEN DispatchRule(supply, now_active[idx], today)
                              ELSE <<>>
                 IN IF check # <<>> THEN add_check(result, check[1]) ELSE result
    /\ idx' = idx + 1
    /\ UNCHANGED <<rule_table, supply, today, pc, engine_rules, ret>>
    /\ UNCHANGED surroundings

\* one iteration of the for loop
LoopBody ==
    /\ pc = "loop"
    /\ idx <= Len(engine_rules[1])
    /\ result' = LET check == DispatchRule(supply, engine_rules[1][idx], today)
                  IN IF check # <<>> THEN add_check(result, check[1]) ELSE result
    /\ idx' = idx + 1
    /\ UNCHANGED <<rule_table, supply, today, pc, engine_rules, ret>>
    /\ UNCHANGED surroundings

\* an end of the loop that waits for one index more
AddWarnings_off_by_one ==
    /\ pc = "loop"
    /\ idx > Len(engine_rules[1]) + 1
    /\ result' = _add_warnings(supply, result, today)
    /\ pc' = "evaluated"
    /\ UNCHANGED <<rule_table, supply, today, engine_rules, idx, ret>>
    /\ UNCHANGED surroundings

\* the loop is exhausted: self._add_warnings(supply, result)
AddWarnings ==
    /\ pc = "loop"
    /\ idx > Len(engine_rules[1])
    /\ result' = _add_warnings(supply, result, today)
    /\ pc' = "evaluated"
    /\ UNCHANGED <<rule_table, supply, today, engine_rules, idx, ret>>
    /\ UNCHANGED surroundings

\* a return that also writes an audit row for the evaluation
Return_with_audit_row ==
    /\ pc = "evaluated"
    /\ ret' = run_eligibility_check_return(result)
    /\ pc' = "done"
    /\ audit_log' = Append(audit_log,
                            [action |-> "STATUS_CHANGED", decision |-> 0, details |-> ""])
    /\ UNCHANGED <<rule_table, supply, today, engine_rules, idx, result>>
    /\ UNCHANGED <<posted, decisions, other, table_versions>>

\* return result.is_eligible, result.to_dict()
Return ==
    /\ pc = "evaluated"
    /\ ret' = run_eligibility_check_return(result)
    /\ pc' = "done"
    /\ UNCHANGED <<rule_table, supply, today, engine_rules, idx, result>>
    /\ UNCHANGED surroundings

Next == Construct \/ BeginEvaluate \/ LoopBody \/ AddWarnings \/ Return

Spec == Init /\ [][Next]_vars

\* the call is one thread of straight-line Python: it keeps taking its steps
LiveInit ==
    /\ \/ InputClass(SkipClassRules, SkipClassSupplies, {0})
       \/ InputClass(CategoryRules, CategorySupplies, {0})
       \/ InputClass(QuantityRules, QuantitySupplies, {0})
       \/ InputClass(SeedLikeRules \cup Deactivated(SeedLikeRules), {DefaultSupply}, {0})
    /\ InitCall
    /\ posted = DecideRequest("ACCEPTED")
    /\ other = IdleCall(supply)

SpecLive == LiveInit /\ [][Next]_vars /\ WF_vars(Next)

----------------------------------------------------------------------------
(* The system around the call: a caller that calls evaluate again on the    *)
(* engine it holds, the rest of supply_decide, the admin editing rules, and *)
(* a second call running at the same time.                                  *)

\* engine.evaluate(supply) once more on an engine that has been iterated
EvaluateAgain ==
    /\ pc = "done"
    /\ pc' = "constructed"
    /\ UNCHANGED <<rule_table, supply, today, engine_rules, idx, result, ret>>
    /\ UNCHANGED surroundings

----------------------------------------------------------------------------
(* The call with the clock running: every access to supply.days_until_expiry *)
(* reads timezone.now().date() anew.                                        *)

\* _check_expiry_date with the dates of its reads: is_expired at n1, the
\* shelf-life test and its message at n2, the pass message at n3
_check_expiry_date_reads(s, rule, n1, n2, n3) ==
    IF is_expired(s, n1)
    THEN EligibilityCheck(rule.name, FALSE,
             Msg("Supply is expired (expiry date: {expiry_date})", s.expiry_date, <<>>),
             rule.is_blocking)
    ELSE IF TruthyInt(rule.min_shelf_life_days)
            /\ days_until_expiry(s, n2)[1] < rule.min_shelf_life_days[1]
    THEN EligibilityCheck(rule.name, FALSE,
             Msg("Insufficient shelf life: {days_remaining} days remaining (minimum: {min_shelf_life_days} days)",
                 <<days_until_expiry(s, n2)[1], rule.min_shelf_life_days[1]>>, <<>>),
             rule.is_blocking)
    ELSE EligibilityCheck(rule.name, TRUE,
             Msg("Valid expiry date: {days_until_expiry} days remaining",
                 days_until_expiry(s, n3), <<>>),
             rule.is_blocking)

\* the loop body's dispatch with the dates of the reads
DispatchRuleReads(s, rule, n1, n2, n3) ==
    IF rule.rule_type = "EXPIRY_DATE"
    THEN <<_check_expiry_date_reads(s, rule, n1, n2, n3)>>
    ELSE DispatchRule(s, rule, n1)

\* _add_warnings with the dates of its reads: the truth test at n1, the
\* comparison with 90 at n2, the message at n3
_add_warnings_reads(s, res, n1, n2, n3) ==
    LET rest == _add_warnings([s EXCEPT !.expiry_date = None], EmptyResult, n1).warnings
        short == IF TruthyInt(days_until_expiry(s, n1))
                    /\ days_until_expiry(s, n2)[1] < ShortShelfLifeDays
                 THEN <<Msg("Short shelf life: Only {days_until_expiry} days until expiry. High-priority redistribution recommended.",
                            days_until_expiry(s, n3), <<>>)>>
                 ELSE <<>>
    IN [res EXCEPT !.warnings = @ \o short \o rest]

\* three successive readings of the date, from today on
ClockReads ==
    {n \in (today..MaxMidnights) \X (today..MaxMidnights) \X (today..MaxMidnights) :
        n[1] <= n[2] /\ n[2] <= n[3]}

\* one iteration of the for loop, the date read as the clock shows it
LoopBodyClock ==
    /\ pc = "loop"
    /\ idx <= Len(engine_rules[1])
    /\ \E n \in ClockReads :
           /\ result' = LET check == DispatchRuleReads(supply, engine_rules[1][idx],
                                                       n[1], n[2], n[3])
                        IN IF check # <<>> THEN add_check(result, check[1]) ELSE result
           /\ today' = n[3]
    /\ idx' = idx + 1
    /\ UNCHANGED <<rule_table, supply, pc, engine_rules, ret>>
    /\ UNCHANGED surroundings

\* self._add_warnings(supply, result), the date read as the clock shows it
AddWarningsClock ==
    /\ pc = "loop"
    /\ idx > Len(engine_rules[1])
    /\ \E n \in ClockReads :
           /\ result' = _add_warnings_reads(supply, result, n[1], n[2], n[3])
           /\ today' = n[3]
    /\ pc' = "evaluated"
    /\ UNCHANGED <<rule_table, supply, engine_rules, idx, ret>>
    /\ UNCHANGED surroundings

ClockInit ==
    /\ \/ InputClass(ExpiryRules, ExpirySupplies, {0})
       \/ InputClass(WarningClassRules, WarningClassSupplies, {0})
    /\ InitCall
    /\ posted = DecideRequest("ACCEPTED")
    /\ other = IdleCall(supply)

ClockNext == Construct \/ BeginEvaluate \/ LoopBodyClock \/ AddWarningsClock \/ Return

SpecClock == ClockInit /\ [][ClockNext]_vars

\* the next request is a complete one
NextCompleteRequest ==
    /\ pc \in {"decided", "redirected", "not_found"}
    /\ pc' = "request"
    /\ posted' \in {DecideRequest("ACCEPTED"), DecideRequest("REJECTED")}
    /\ UNCHANGED <<rule_table, supply, today, engine_rules, idx, result, ret>>
    /\ UNCHANGED <<decisions, audit_log, other, table_versions>>

\* supply_decide without the test of the justification field
DecideValidate_without_justification_test ==
    /\ pc = "request"
    /\ pc' = IF posted.method # "POST" THEN "redirected"
             ELSE IF posted.decision = "" \/ posted.reason_code = "" THEN "redirected"
             ELSE IF posted.reason_code \notin ReasonCodes THEN "not_found"
             ELSE "idle"
    /\ UNCHANGED <<rule_table, supply, today, engine_rules, idx, result, ret>>
    /\ UNCHANGED surroundings

\* supply_decide up to run_eligibility_check: a request that is not a POST or
\* lacks a required field is redirected, an unknown reason code is a 404
DecideValidate ==
    /\ pc = "request"
    /\ pc' = IF posted.method # "POST" THEN "redirected"
             ELSE IF posted.decision = "" \/ posted.reason_code = ""
                     \/ posted.justification = "" THEN "redirected"
             ELSE IF posted.reason_code \notin ReasonCodes THEN "not_found"
             ELSE "idle"
    /\ UNCHANGED <<rule_table, supply, today, engine_rules, idx, result, ret>>
    /\ UNCHANGED surroundings

\* Decision.save, on creation: the supply's status follows the decision
StatusAfter(decision, status) ==
    CASE decision = "ACCEPTED" -> "ACCEPTED"
      [] decision = "REVIEW" -> "NEEDS_REVIEW"
      [] decision = "REJECTED" -> "REJECTED"
      [] OTHER -> status

\* Decision.objects.create, first half: self.supply.save()
DecisionSaveSupply ==
    /\ pc = "done"
    /\ Len(decisions) < MaxDecisions
    /\ supply' = [supply EXCEPT !.decision_status = StatusAfter(posted.decision, @)]
    /\ pc' = "supply_saved"
    /\ UNCHANGED <<rule_table, today, engine_rules, idx, result, ret>>
    /\ UNCHANGED surroundings

\* an insert that records the reviewer's verdict as eligibility_passed
DecisionInsert_passed_from_decision ==
    /\ pc = "supply_saved"
    /\ decisions' = Append(decisions,
                           [decision |-> posted.decision,
                            reason_code |-> posted.reason_code,
                            justification |-> posted.justification,
                            eligibility_passed |-> (posted.decision = "ACCEPTED"),
                            eligibility_details |-> ret[2],
                            is_superseded |-> FALSE])
    /\ pc' = "decision_saved"
    /\ UNCHANGED <<rule_table, supply, today, engine_rules, idx, result, ret>>
    /\ UNCHANGED <<posted, audit_log, other, table_versions>>

\* Decision.objects.create, second half: super().save()
DecisionInsert ==
    /\ pc = "supply_saved"
    /\ decisions' = Append(decisions,
                           [decision |-> posted.decision,
                            reason_code |-> posted.reason_code,
                            justification |-> posted.justification,
                            eligibility_passed |-> ret[1],
                            eligibility_details |-> ret[2],
                            is_superseded |-> FALSE])
    /\ pc' = "decision_saved"
    /\ UNCHANGED <<rule_table, supply, today, engine_rules, idx, result, ret>>
    /\ UNCHANGED <<posted, audit_log, other, table_versions>>

\* super().save() raises (the insert is refused or the database is gone): the
\* request ends with the error; self.supply.save() has been committed, no
\* transaction encloses the two saves
DecisionInsertFails ==
    /\ pc = "supply_saved"
    /\ pc' = "failed"
    /\ UNCHANGED <<rule_table, supply, today, engine_rules, idx, result, ret>>
    /\ UNCHANGED surroundings

\* AuditLog.objects.create raises: the request ends with the error after the
\* Decision has been stored
LogAuditFails ==
    /\ pc = "decision_saved"
    /\ pc' = "failed"
    /\ UNCHANGED <<rule_table, supply, today, engine_rules, idx, result, ret>>
    /\ UNCHANGED surroundings

\* log_audit(action='DECISION_MADE', ...)
LogAuditDecision ==
    /\ pc = "decision_saved"
    /\ audit_log' = Append(audit_log,
                            [action |-> "DECISION_MADE", decision |-> Len(decisions),
                             details |-> posted.decision])
    /\ pc' = "decided"
    /\ UNCHANGED <<rule_table, supply, today, engine_rules, idx, result, ret>>
    /\ UNCHANGED <<posted, decisions, other, table_versions>>

\* the request is over; the next supply_decide request for the supply arrives
NextRequest ==
    /\ pc \in {"decided", "redirected", "not_found", "failed"}
    /\ pc' = "request"
    /\ posted' \in Requests
    /\ UNCHANGED <<rule_table, supply, today, engine_rules, idx, result, ret>>
    /\ UNCHANGED <<decisions, audit_log, other, table_versions>>

\* the admin saves a rule with is_active changed
AdminToggleActive ==
    \E i \in 1..Len(rule_table) :
        /\ rule_table' = [rule_table EXCEPT ![i].is_active = ~@]
        /\ table_versions' = table_versions \cup {rule_table'}
        /\ Cardinality(table_versions') <= MaxTableVersions
        /\ UNCHANGED <<supply, today, pc, engine_rules, idx, result, ret>>
        /\ UNCHANGED <<posted, decisions, audit_log, other>>

\* the admin saves a rule with is_blocking changed
AdminEditRule ==
    \E i \in 1..Len(rule_table) :
        /\ rule_table' = [rule_table EXCEPT ![i].is_blocking = ~@]
        /\ table_versions' = table_versions \cup {rule_table'}
        /\ Cardinality(table_versions') <= MaxTableVersions
        /\ UNCHANGED <<supply, today, pc, engine_rules, idx, result, ret>>
        /\ UNCHANGED <<posted, decisions, audit_log, other>>

\* what a step of the second call leaves alone
OtherFrame ==
    UNCHANGED <<rule_table, supply, today, pc, engine_rules, idx, result, ret,
                posted, decisions, audit_log, table_versions>>

OtherConstruct ==
    /\ other.pc = "idle"
    /\ other' = [other EXCEPT !.pc = "constructed", !.engine_rules = None]
    /\ OtherFrame

OtherBeginEvaluate ==
    /\ other.pc = "constructed"
    /\ other' = [other EXCEPT !.result = EmptyResult,
                              !.engine_rules = IF @ = None
                                               THEN Some(ActiveRules(rule_table))
                                               ELSE @,
                              !.idx = 1,
                              !.pc = "loop"]
    /\ OtherFrame

\* an iteration that appends to a checks list shared by all results
OtherLoopBody_shared_checks ==
    /\ other.pc = "loop"
    /\ other.idx <= Len(other.engine_rules[1])
    /\ LET check == DispatchRule(other.supply, other.engine_rules[1][other.idx], today)
       IN /\ other' = [other EXCEPT
                           !.result = IF check # <<>> THEN add_check(@, check[1]) ELSE @,
                           !.idx = @ + 1]
          /\ result' = IF check # <<>> THEN add_check(result, check[1]) ELSE result
    /\ UNCHANGED <<rule_table, supply, today, pc, engine_rules, idx, ret,
                   posted, decisions, audit_log, table_versions>>

OtherLoopBody ==
    /\ other.pc = "loop"
    /\ other.idx <= Len(other.engine_rules[1])
    /\ other' = LET check == DispatchRule(other.supply, other.engine_rules[1][other.idx], today)
                IN [other EXCEPT
                        !.result = IF check # <<>> THEN add_check(@, check[1]) ELSE @,
                        !.idx = @ + 1]
    /\ OtherFrame

OtherAddWarnings ==
    /\ other.pc = "loop"
    /\ other.idx > Len(other.engine_rules[1])
    /\ other' = [other EXCEPT !.result = _add_warnings(other.supply, @, today),
                              !.pc = "evaluated"]
    /\ OtherFrame

OtherReturn ==
    /\ other.pc = "evaluated"
    /\ other' = [other EXCEPT !.ret = run_eligibility_check_return(other.result),
                              !.pc = "done"]
    /\ OtherFrame

\* rule tables and supplies of the system runs
SysTables ==
    {<<RuleRow("QUANTITY", TRUE, None, None, None, Some(1), None),
       RuleRow("CATEGORY", FALSE, None, Some(<<"PPE", "SURGICAL">>), None, None, None)>>,
     <<RuleRow("EXPIRY_DATE", TRUE, Some(60), None, None, None, None),
       [RuleRow("DOCUMENTATION", FALSE, None, None, None, None, None)
            EXCEPT !.is_active = FALSE]>>}

SysSupplies ==
    {DefaultSupply,
     [DefaultSupply EXCEPT !.category = "EQUIPMENT", !.quantity = 0,
                           !.expiry_date = Some(30), !.evidence_set = <<>>]}

\* between requests the admin changes the supply or its evidence; a request
\* works on the row it has loaded
AdminEditSupply ==
    /\ pc \in {"decided", "redirected", "not_found"}
    /\ \E s \in SysSupplies :
           /\ s.category # supply.category
           /\ supply' = [s EXCEPT !.decision_status = supply.decision_status]
    /\ UNCHANGED <<rule_table, today, pc, engine_rules, idx, result, ret>>
    /\ UNCHANGED surroundings

\* a caller that keeps its engine, while the admin edits rules
SysInit ==
    /\ \E t \in SysTables, s \in SysSupplies :
           /\ rule_table = NameRows(t)
           /\ supply = s
    /\ today = 0
    /\ posted = DecideRequest("ACCEPTED")
    /\ other = IdleCall(supply)
    /\ InitCall

SysNext ==
    \/ Construct \/ BeginEvaluate \/ LoopBody \/ AddWarnings \/ Return
    \/ EvaluateAgain
    \/ AdminToggleActive \/ AdminEditRule

SpecSys == SysInit /\ [][SysNext]_vars

\* supply_decide requests for one supply, one after the other, while the
\* admin activates and deactivates rules
ReqStart ==
    /\ other = IdleCall(supply)
    /\ today = 0
    /\ pc = "request"
    /\ engine_rules = None
    /\ idx = 1
    /\ result = EmptyResult
    /\ ret = None
    /\ decisions = <<>>
    /\ audit_log = <<>>
    /\ table_versions = {rule_table}

ReqInit ==
    /\ rule_table = NameRows(CHOOSE t \in SysTables : t[1].rule_type = "EXPIRY_DATE")
    /\ supply = DefaultSupply
    /\ posted \in {DecideRequest("ACCEPTED"), DecideRequest("REJECTED")}
    /\ ReqStart

ReqNext ==
    \/ DecideValidate
    \/ Construct \/ BeginEvaluate \/ LoopBody \/ AddWarnings \/ Return
    \/ DecisionSaveSupply \/ DecisionInsert \/ LogAuditDecision
    \/ NextCompleteRequest
    \/ AdminToggleActive \/ AdminEditSupply

SpecReq == ReqInit /\ [][ReqNext]_vars

\* supply_decide requests of every kind for one supply, one after the other
DecideInit ==
    /\ \E t \in SysTables, s \in SysSupplies :
           /\ rule_table = NameRows(t)
           /\ supply = s
    /\ posted \in Requests
    /\ ReqStart

DecideNext ==
    \/ DecideValidate
    \/ Construct \/ BeginEvaluate \/ LoopBody \/ AddWarnings \/ Return
    \/ DecisionSaveSupply \/ DecisionInsert \/ LogAuditDecision
    \/ DecisionInsertFails \/ LogAuditFails
    \/ NextRequest

SpecDecide == DecideInit /\ [][DecideNext]_vars

\* two calls at the same time, while the admin edits rules
ParInit ==
    /\ \E t \in SysTables, s \in SysSupplies, o \in SysSupplies :
           /\ rule_table = NameRows(t)
           /\ supply = s
           /\ other = IdleCall(o)
    /\ today = 0
    /\ posted = DecideRequest("ACCEPTED")
    /\ InitCall

ParNext ==
    \/ Construct \/ BeginEvaluate \/ LoopBody \/ AddWarnings \/ Return
    \/ OtherConstruct \/ OtherBeginEvaluate \/ OtherLoopBody
    \/ OtherAddWarnings \/ OtherReturn
    \/ AdminToggleActive \/ AdminEditRule

SpecPar == ParInit /\ [][ParNext]_vars

----------------------------------------------------------------------------
(* Properties.  Snapshot is the rule list the loop iterates, Visited the    *)
(* rules the loop has passed, Dispatched those of them that have a checker. *)

Snapshot == IF engine_rules = None THEN <<>> ELSE engine_rules[1]

Visited == SubSeq(Snapshot, 1, idx - 1)

HasChecker(r) ==
    r.rule_type \in {"EXPIRY_DATE", "CATEGORY", "PACKAGING", "QUANTITY", "DOCUMENTATION"}

Dispatched == SelectSeq(Visited, HasChecker)

\* the positions at which a check and the rule it came from can be compared
Paired == {i \in 1..Len(result.checks) : i <= Len(Dispatched)}

BlockingChecksPass(cs) == \A i \in 1..Len(cs) : cs[i].is_blocking => cs[i].passed

\* the checks evaluate collects from a rule list
RECURSIVE ChecksOf(_, _, _)
ChecksOf(rs, s, now) ==
    IF rs = <<>> THEN <<>>
    ELSE DispatchRule(s, Head(rs), now) \o ChecksOf(Tail(rs), s, now)

\* the rule list evaluate would iterate with the rows that have no checker removed
\* from the table
SnapshotWithoutSkipped == ActiveRules(SelectSeq(rule_table, HasChecker))

\* days until expiry of the supply under evaluation (expiry_date present)
Days == supply.expiry_date[1] - today

(* C1: a returned result is eligible exactly when every blocking check      *)
(* passed; failed non-blocking checks do not count.                         *)
C1_BlockingDominance ==
    pc = "done" =>
        /\ ret[1] = BlockingChecksPass(result.checks)
        /\ ret[2].is_eligible = BlockingChecksPass(ret[2].checks)

C1_Witness ==
    /\ pc = "done"
    /\ ret[1] = TRUE
    /\ \E i \in 1..Len(result.checks) :
           ~result.checks[i].is_blocking /\ ~result.checks[i].passed
    /\ \E i \in 1..Len(result.checks) :
           result.checks[i].is_blocking /\ result.checks[i].passed

(* C2: with no active rule the result has zero checks and is eligible.      *)
C2_EmptyRuleSet ==
    (pc = "done" /\ \A i \in 1..Len(rule_table) : ~rule_table[i].is_active) =>
        /\ Len(result.checks) = 0
        /\ Len(ret[2].checks) = 0
        /\ ret[1] = TRUE
        /\ ret[2].is_eligible = TRUE

C2_Witness ==
    /\ pc = "done"
    /\ Len(rule_table) > 0
    /\ \A i \in 1..Len(rule_table) : ~rule_table[i].is_active
    /\ ret[1] = TRUE
    /\ Len(ret[2].checks) = 0

(* C3: a rule of type CUSTOM or of an unrecognized type adds no check (the  *)
(* checks are, one to one, those of the visited rules that have a checker), *)
(* the loop moves past it, and checks and eligibility are those of the      *)
(* rule list without such rules.                                            *)
C3_SkippedRuleAddsNoCheck ==
    /\ Len(result.checks) = Len(Dispatched)
    /\ \A i \in Paired : result.checks[i].name = Dispatched[i].name
    /\ (pc = "loop" /\ idx <= Len(Snapshot) /\ ~HasChecker(Snapshot[idx])) => ENABLED LoopBody
    /\ pc = "done" =>
          /\ result.checks = ChecksOf(SnapshotWithoutSkipped, supply, today)
          /\ ret[1] = is_eligible([checks |-> ChecksOf(SnapshotWithoutSkipped, supply, today),
                                   warnings |-> <<>>])

C3_Witness ==
    /\ pc = "done"
    /\ \E i \in 1..Len(Snapshot) :
           /\ Snapshot[i].rule_type = "CUSTOM"
           /\ Snapshot[i].is_blocking
           /\ Snapshot[i].min_quantity # None
    /\ \E i \in 1..Len(Snapshot) :
           Snapshot[i].rule_type \notin RULE_TYPE_CHOICES
    /\ Len(result.checks) = 0
    /\ ret[1] = TRUE

(* C4: for a supply whose expiry_date is before today, every EXPIRY_DATE    *)
(* rule gives a failed check with the "expired" message naming the expiry   *)
(* date, whatever min_shelf_life_days is.                                   *)
C4_ExpiredPrecedence ==
    \A i \in Paired :
        (/\ Dispatched[i].rule_type = "EXPIRY_DATE"
         /\ supply.expiry_date # None
         /\ supply.expiry_date[1] < today) =>
            /\ result.checks[i].passed = FALSE
            /\ result.checks[i].message =
                   Msg("Supply is expired (expiry date: {expiry_date})",
                       supply.expiry_date, <<>>)

C4_Witness ==
    /\ supply.expiry_date # None
    /\ supply.expiry_date[1] < today
    /\ \E i \in Paired :
           /\ Dispatched[i].rule_type = "EXPIRY_DATE"
           /\ Dispatched[i].min_shelf_life_days = Some(60)
           /\ result.checks[i].message.kind = "Supply is expired (expiry date: {expiry_date})"
    /\ \E i \in Paired :
           /\ Dispatched[i].rule_type = "EXPIRY_DATE"
           /\ Dispatched[i].min_shelf_life_days = None

(* C5: for a supply that is not expired (days until expiry >= 0), an        *)
(* EXPIRY_DATE rule's check fails exactly when min_shelf_life_days is set   *)
(* and days until expiry is below it; with min_shelf_life_days = 60,        *)
(* 30 days left and a blocking rule the check fails, its message carries    *)
(* 30 and 60, and the result is ineligible.                                 *)
C5_ShelfLife ==
    \A i \in Paired :
        (/\ Dispatched[i].rule_type = "EXPIRY_DATE"
         /\ supply.expiry_date # None
         /\ Days >= 0) =>
            /\ result.checks[i].passed =
                   ~(/\ Dispatched[i].min_shelf_life_days # None
                     /\ Days < Dispatched[i].min_shelf_life_days[1])
            /\ (/\ Dispatched[i].min_shelf_life_days = Some(60)
                /\ Days = 30
                /\ Dispatched[i].is_blocking) =>
                   /\ result.checks[i].passed = FALSE
                   /\ result.checks[i].message.nums = <<30, 60>>
                   /\ pc = "done" => ret[1] = FALSE

C5_Witness ==
    /\ pc = "done"
    /\ supply.expiry_date # None
    /\ Days = 30
    /\ ret[1] = FALSE
    /\ \E i \in Paired :
           /\ Dispatched[i].rule_type = "EXPIRY_DATE"
           /\ Dispatched[i].min_shelf_life_days = Some(60)
           /\ Dispatched[i].is_blocking
    /\ \E i \in Paired :
           /\ Dispatched[i].rule_type = "EXPIRY_DATE"
           /\ Dispatched[i].min_shelf_life_days = Some(30)
           /\ result.checks[i].passed

(* C6: a CATEGORY rule's check passes when allowed_categories is unset or   *)
(* empty, and otherwise exactly when the supply's category is in it; a      *)
(* blocking rule allowing only PPE and SURGICAL makes an EQUIPMENT supply   *)
(* ineligible.                                                              *)
C6_Category ==
    \A i \in Paired :
        Dispatched[i].rule_type = "CATEGORY" =>
            /\ result.checks[i].passed =
                   (\/ Dispatched[i].allowed_categories = None
                    \/ Dispatched[i].allowed_categories[1] = <<>>
                    \/ \E j \in DOMAIN Dispatched[i].allowed_categories[1] :
                           Dispatched[i].allowed_categories[1][j] = supply.category)
            /\ (/\ Dispatched[i].allowed_categories = Some(<<"PPE", "SURGICAL">>)
                /\ Dispatched[i].is_blocking
                /\ supply.category = "EQUIPMENT"
                /\ pc = "done") => ret[1] = FALSE

C6_Witness ==
    /\ pc = "done"
    /\ supply.category = "EQUIPMENT"
    /\ ret[1] = FALSE
    /\ \E i \in Paired :
           /\ Dispatched[i].rule_type = "CATEGORY"
           /\ Dispatched[i].allowed_categories = Some(<<"PPE", "SURGICAL">>)
           /\ Dispatched[i].is_blocking
           /\ ~result.checks[i].passed
    /\ \E i \in Paired :
           /\ Dispatched[i].rule_type = "CATEGORY"
           /\ Dispatched[i].allowed_categories = Some(<<>>)
           /\ result.checks[i].passed

(* C7: a PACKAGING rule's check passes when required_packaging_status is    *)
(* unset or empty, and otherwise exactly when the supply's packaging_status *)
(* is in it.                                                                *)
C7_Packaging ==
    \A i \in Paired :
        Dispatched[i].rule_type = "PACKAGING" =>
            result.checks[i].passed =
                (\/ Dispatched[i].required_packaging_status = None
                 \/ Dispatched[i].required_packaging_status[1] = <<>>
                 \/ \E j \in DOMAIN Dispatched[i].required_packaging_status[1] :
                        Dispatched[i].required_packaging_status[1][j] = supply.packaging_status)

C7_Witness ==
    /\ pc = "done"
    /\ supply.packaging_status = "SIGNIFICANT_DAMAGE"
    /\ \E i \in Paired :
           /\ Dispatched[i].rule_type = "PACKAGING"
           /\ Dispatched[i].required_packaging_status = Some(<<>>)
           /\ result.checks[i].passed
    /\ \E i \in Paired :
           /\ Dispatched[i].rule_type = "PACKAGING"
           /\ Dispatched[i].required_packaging_status # None
           /\ ~result.checks[i].passed

(* C8: a QUANTITY rule's check fails exactly when min_quantity is not null  *)
(* and quantity < min_quantity, or max_quantity is not null and             *)
(* quantity > max_quantity, for every integer value of the bounds, 0        *)
(* included.                                                                *)
C8_QuantityBoundsWhenNotNull ==
    \A i \in Paired :
        Dispatched[i].rule_type = "QUANTITY" =>
            result.checks[i].passed =
                ~(\/ /\ Dispatched[i].min_quantity # None
                     /\ supply.quantity < Dispatched[i].min_quantity[1]
                  \/ /\ Dispatched[i].max_quantity # None
                     /\ supply.quantity > Dispatched[i].max_quantity[1])

(* C9: with no evidence attached, every DOCUMENTATION rule's check fails    *)
(* and carries the rule's own is_blocking flag; the result's eligibility is *)
(* that of the checks other than those of non-blocking DOCUMENTATION rules. *)
C9_NoEvidence ==
    Len(supply.evidence_set) = 0 =>
        /\ \A i \in Paired :
               Dispatched[i].rule_type = "DOCUMENTATION" =>
                   /\ result.checks[i].passed = FALSE
                   /\ result.checks[i].is_blocking = Dispatched[i].is_blocking
        /\ pc = "done" =>
               ret[1] = \A i \in Paired :
                            ~(Dispatched[i].rule_type = "DOCUMENTATION"
                              /\ ~Dispatched[i].is_blocking) =>
                                (result.checks[i].is_blocking => result.checks[i].passed)

C9_Witness ==
    /\ pc = "done"
    /\ Len(supply.evidence_set) = 0
    /\ ret[1] = TRUE
    /\ \E i \in Paired :
           /\ Dispatched[i].rule_type = "DOCUMENTATION"
           /\ ~Dispatched[i].is_blocking
           /\ ~result.checks[i].passed
    /\ \E i \in Paired : Dispatched[i].rule_type # "DOCUMENTATION"

C9_WitnessBlocking ==
    /\ pc = "done"
    /\ Len(supply.evidence_set) = 0
    /\ ret[1] = FALSE
    /\ \E i \in Paired :
           /\ Dispatched[i].rule_type = "DOCUMENTATION"
           /\ Dispatched[i].is_blocking

(* C10: with evidence attached but none of a PHOTO_ type, a DOCUMENTATION   *)
(* rule's check fails when the rule is blocking and passes when it is not;  *)
(* with at least one PHOTO_ item it passes for both.                        *)
C10_DocumentationAsymmetry ==
    \A i \in Paired :
        (Dispatched[i].rule_type = "DOCUMENTATION" /\ Len(supply.evidence_set) >= 1) =>
            IF \E j \in 1..Len(supply.evidence_set) : supply.evidence_set[j][1] = "PHOTO"
            THEN result.checks[i].passed = TRUE
            ELSE result.checks[i].passed = ~Dispatched[i].is_blocking

C10_Witness ==
    /\ pc = "done"
    /\ Len(supply.evidence_set) >= 1
    /\ \A j \in 1..Len(supply.evidence_set) : supply.evidence_set[j][1] # "PHOTO"
    /\ \E i \in Paired :
           /\ Dispatched[i].rule_type = "DOCUMENTATION"
           /\ Dispatched[i].is_blocking
           /\ ~result.checks[i].passed
    /\ \E i \in Paired :
           /\ Dispatched[i].rule_type = "DOCUMENTATION"
           /\ ~Dispatched[i].is_blocking
           /\ result.checks[i].passed

C10_WitnessPhoto ==
    /\ pc = "done"
    /\ \E j \in 1..Len(supply.evidence_set) : supply.evidence_set[j][1] = "PHOTO"
    /\ \E i \in Paired :
           /\ Dispatched[i].rule_type = "DOCUMENTATION"
           /\ Dispatched[i].is_blocking
           /\ result.checks[i].passed

----------------------------------------------------------------------------
(* Warnings *)

Evaluated == pc \in {"evaluated", "done"}

ShortShelfLifeKind ==
    "Short shelf life: Only {days_until_expiry} days until expiry. High-priority redistribution recommended."

PackagingConcernKind ==
    "Packaging integrity concern: {packaging_status_display}. Additional review recommended."

UnknownStorageKind ==
    "Storage conditions unknown. Verify with submitter before final decision."

NoBatchKind == "No batch number provided. Traceability may be limited."

WarningKinds == [i \in 1..Len(result.warnings) |-> result.warnings[i].kind]

\* the warnings the four conditions call for, in the fixed order
ExpectedWarningKinds ==
    (IF supply.expiry_date # None /\ Days < 90 THEN <<ShortShelfLifeKind>> ELSE <<>>)
    \o (IF supply.packaging_status \in {"OPENED_INTACT", "MINOR_DAMAGE", "SIGNIFICANT_DAMAGE"}
        THEN <<PackagingConcernKind>> ELSE <<>>)
    \o (IF supply.storage_conditions = "UNKNOWN" THEN <<UnknownStorageKind>> ELSE <<>>)
    \o (IF supply.batch_number = "" THEN <<NoBatchKind>> ELSE <<>>)

(* C11: the warnings of a result are exactly those of [short shelf life,    *)
(* packaging integrity, unknown storage, missing batch number] whose        *)
(* condition holds for the supply, in that order, each at most once.        *)
C11_WarningsAreTheApplicableOnes ==
    Evaluated => WarningKinds = ExpectedWarningKinds

(* C12: when expiry_date is present the short-shelf-life warning is         *)
(* produced exactly when days until expiry < 90, for every integer value    *)
(* (zero and negative included); it is not produced when expiry_date is     *)
(* absent.                                                                  *)
C12_ShortShelfLifeBelow90 ==
    Evaluated =>
        (\E i \in 1..Len(result.warnings) : result.warnings[i].kind = ShortShelfLifeKind)
            = (supply.expiry_date # None /\ Days < 90)

(* C13: the warnings depend on the supply and the date only: they are those *)
(* the same supply gets on the same day from an evaluation with no rule and *)
(* no check.                                                                *)
C13_WarningIndependence ==
    /\ Evaluated => result.warnings = _add_warnings(supply, EmptyResult, today).warnings
    /\ pc = "done" => ret[2].warnings = _add_warnings(supply, EmptyResult, today).warnings

C13_Witness ==
    /\ pc = "done"
    /\ Len(result.warnings) >= 2
    /\ ret[1] = FALSE
    /\ \E i \in 1..Len(result.checks) : result.checks[i].passed
    /\ \E i \in 1..Len(result.checks) :
           ~result.checks[i].passed /\ result.checks[i].is_blocking

----------------------------------------------------------------------------
(* Checks and rules *)

\* evaluate as a function of the table, the supply and the date
EvaluateRules(rs, s, now) ==
    _add_warnings(s, [checks |-> ChecksOf(rs, s, now), warnings |-> <<>>], now)

EvaluateTable(table, s, now) == EvaluateRules(ActiveRules(table), s, now)

\* the iterated rules of a recognized type, in iteration order
RecognizedSnapshot ==
    SelectSeq(Snapshot, LAMBDA r : r.rule_type \in
        {"EXPIRY_DATE", "CATEGORY", "PACKAGING", "QUANTITY", "DOCUMENTATION"})

(* C14: the checks of a result correspond one to one, in order, to the      *)
(* iterated active rules of a recognized type: as many checks as such       *)
(* rules, the i-th check carrying the i-th rule's name and is_blocking; the *)
(* iterated rules are the active rows of the table.                         *)
C14_ChecksFollowRules ==
    Evaluated =>
        /\ {Snapshot[i] : i \in 1..Len(Snapshot)}
               = {rule_table[i] : i \in {j \in 1..Len(rule_table) : rule_table[j].is_active}}
        /\ Len(result.checks) = Len(RecognizedSnapshot)
        /\ \A i \in 1..Len(result.checks) :
               /\ result.checks[i].name = RecognizedSnapshot[i].name
               /\ result.checks[i].is_blocking = RecognizedSnapshot[i].is_blocking
        /\ pc = "done" =>
               /\ Len(ret[2].checks) = Len(RecognizedSnapshot)
               /\ \A i \in 1..Len(RecognizedSnapshot) :
                      /\ ret[2].checks[i].name = RecognizedSnapshot[i].name
                      /\ ret[2].checks[i].is_blocking = RecognizedSnapshot[i].is_blocking

C14_Witness ==
    /\ pc = "done"
    /\ Len(result.checks) = 2
    /\ result.checks[1].name = "rule-b"
    /\ result.checks[2].name = "rule-a"
    /\ result.checks[1].is_blocking
    /\ ~result.checks[2].is_blocking

(* C15: an inactive rule contributes no check and does not affect the       *)
(* result: result and return value are those of the table with every        *)
(* inactive row removed.                                                    *)
C15_InactiveRulesIgnored ==
    pc = "done" =>
        LET kept == SelectSeq(rule_table, LAMBDA r : r.is_active)
        IN /\ \A i \in 1..Len(rule_table) :
                  ~rule_table[i].is_active =>
                      \A j \in 1..Len(result.checks) :
                          result.checks[j].name # rule_table[i].name
           /\ result = EvaluateTable(kept, supply, today)
           /\ ret = run_eligibility_check_return(EvaluateTable(kept, supply, today))

C15_Witness ==
    /\ pc = "done"
    /\ supply.quantity = 0
    /\ \E i \in 1..Len(rule_table) :
           /\ ~rule_table[i].is_active
           /\ rule_table[i].rule_type = "QUANTITY"
           /\ rule_table[i].is_blocking
           /\ rule_table[i].min_quantity = Some(1)
    /\ Len(result.checks) = 1
    /\ ret[1] = TRUE

(* C20: run_eligibility_check returns (b, d): d has exactly the keys        *)
(* is_eligible, checks, warnings, summary; b = d['is_eligible']; d['checks']*)
(* has one {name, passed, message, is_blocking} entry per check, in check   *)
(* order; b and d are the is_eligible and the serialization of the result   *)
(* of the evaluation.                                                       *)
C20_ReturnShape ==
    pc = "done" =>
        /\ Len(ret) = 2
        /\ DOMAIN ret[2] = {"is_eligible", "checks", "warnings", "summary"}
        /\ ret[1] = ret[2].is_eligible
        /\ ret[1] = BlockingChecksPass(result.checks)
        /\ DOMAIN ret[2].checks = 1..Len(result.checks)
        /\ \A i \in 1..Len(result.checks) :
               /\ DOMAIN ret[2].checks[i] = {"name", "passed", "message", "is_blocking"}
               /\ ret[2].checks[i].name = result.checks[i].name
               /\ ret[2].checks[i].passed = result.checks[i].passed
               /\ ret[2].checks[i].message = result.checks[i].message
               /\ ret[2].checks[i].is_blocking = result.checks[i].is_blocking
        /\ ret[2].warnings = result.warnings
        /\ ret[2].summary = get_summary(result)

C20_Witness ==
    /\ pc = "done"
    /\ Len(ret[2].checks) = 2
    /\ ret[2].checks[1].passed /\ ~ret[2].checks[2].passed
    /\ Len(ret[2].warnings) >= 1
    /\ ret[1] = FALSE

----------------------------------------------------------------------------
(* The call among rule edits, other requests and other calls *)

(* C16: every evaluate uses the rules that are active when it is called,    *)
(* also a second evaluate on an engine that was used before a rule changed: *)
(* the step that starts an evaluation leaves the engine with the active     *)
(* rows of the table as it is at that step.                                 *)
C16_EvaluateUsesCurrentRules ==
    [][BeginEvaluate => engine_rules'[1] = ActiveRules(rule_table)]_vars

(* C17: within one evaluate the rule set is one snapshot: the rules         *)
(* iterated, and the checks of the result, are those of the active rows of  *)
(* one value the table has had, never of a mix of two.                      *)
C17_SingleSnapshot ==
    Evaluated =>
        \E T \in table_versions :
            /\ Snapshot = ActiveRules(T)
            /\ result.checks = ChecksOf(ActiveRules(T), supply, today)

\* a first call, finished after the admin changed the rules under it
C17_Witness ==
    /\ pc = "evaluated"
    /\ ret = None
    /\ Len(result.checks) = 2
    /\ ActiveRules(rule_table) # Snapshot
    /\ result.checks # ChecksOf(ActiveRules(rule_table), supply, today)

\* a step of run_eligibility_check: construction, evaluate or the return
EvaluationStep ==
    /\ pc \in {"idle", "constructed", "loop", "evaluated"}
    /\ <<pc, idx>>' # <<pc, idx>>

(* C18: evaluate and run_eligibility_check leave every persisted record     *)
(* unchanged: no step of the call changes the supply (decision_status and   *)
(* evidence included), the rules, the decisions or the audit log.           *)
C18_EvaluationWritesNoRecord ==
    [][EvaluationStep => UNCHANGED <<supply, rule_table, decisions, audit_log>>]_vars

\* an evaluation that ran on a supply already decided and logged
C18_Witness ==
    /\ pc = "done"
    /\ Len(decisions) = 1
    /\ Len(audit_log) = 1
    /\ supply.decision_status = "REJECTED"
    /\ ret[1] = TRUE
    /\ decisions[1].eligibility_details = ret[2]

(* C19: the result of an evaluation is a function of the active rules it    *)
(* iterates, the supply and today only: each of two calls running at the    *)
(* same time returns that function's value, so two calls with the same      *)
(* three inputs return the same pair, whatever the other call is doing.     *)
C19_ResultIsAFunctionOfItsInputs ==
    /\ pc = "done" =>
           ret = run_eligibility_check_return(EvaluateRules(Snapshot, supply, today))
    /\ other.pc = "done" =>
           other.ret = run_eligibility_check_return(
                           EvaluateRules(other.engine_rules[1], other.supply, today))
    /\ (pc = "done" /\ other.pc = "done"
            /\ engine_rules = other.engine_rules /\ supply = other.supply)
           => ret = other.ret

C19_Witness ==
    /\ pc = "done"
    /\ other.pc = "done"
    /\ supply = other.supply
    /\ engine_rules = other.engine_rules
    /\ Len(ret[2].checks) = 2
    /\ ret[1] = FALSE
    /\ Cardinality(table_versions) > 1

\* two calls on different supplies disagree under the same rules
C19_WitnessOtherSupply ==
    /\ pc = "done"
    /\ other.pc = "done"
    /\ supply # other.supply
    /\ engine_rules = other.engine_rules
    /\ ret[1] # other.ret[1]

----------------------------------------------------------------------------
(* Fallbacks and totals *)

\* the supply with an expiry date too far away to matter
WithDistantExpiry == [supply EXCEPT !.expiry_date = Some(today + ShortShelfLifeDays)]

(* C21: a supply without expiry_date is evaluated without an error:         *)
(* is_expired is true, every EXPIRY_DATE rule gives a failed check with the *)
(* expired message, there is no short-shelf-life warning, and the checks of *)
(* the other rule types and the other warnings are what they are for the    *)
(* same supply with an expiry date.                                         *)
C21_AbsentExpiryDate ==
    supply.expiry_date = None =>
        /\ is_expired(supply, today)
        /\ pc # "done" => ENABLED Next
        /\ Evaluated =>
               /\ Len(result.checks) = Len(RecognizedSnapshot)
               /\ \A i \in 1..Len(result.checks) :
                      IF RecognizedSnapshot[i].rule_type = "EXPIRY_DATE"
                      THEN /\ ~result.checks[i].passed
                           /\ result.checks[i].message.kind
                                  = "Supply is expired (expiry date: {expiry_date})"
                      ELSE <<result.checks[i]>>
                               = DispatchRule(WithDistantExpiry, RecognizedSnapshot[i], today)
               /\ \A i \in 1..Len(result.warnings) :
                      result.warnings[i].kind # ShortShelfLifeKind
               /\ result.warnings = _add_warnings(WithDistantExpiry, EmptyResult, today).warnings

C21_Witness ==
    /\ pc = "done"
    /\ supply.expiry_date = None
    /\ Len(result.checks) = 2
    /\ \E i \in 1..2 : RecognizedSnapshot[i].rule_type = "EXPIRY_DATE"
    /\ \E i \in 1..2 : result.checks[i].passed
    /\ Len(result.warnings) >= 1

\* the active rows of the table
ActiveRows == SelectSeq(rule_table, LAMBDA r : r.is_active)

(* C22: for every finite set of active rules (recognized, CUSTOM and        *)
(* unrecognized types, parameters set or unset) and every supply, evaluate  *)
(* terminates and returns a result; it never stops before the return, and   *)
(* the loop visits each active rule exactly once: it iterates as many rules *)
(* as there are active rows, each of them once, advancing by one rule per   *)
(* iteration up to the end of the list.                                     *)
C22_EvaluateTerminates ==
    /\ [](pc # "done" => ENABLED Next)
    /\ [](pc \in {"loop", "evaluated", "done"} =>
              /\ Len(Snapshot) = Len(ActiveRows)
              /\ \A i \in 1..Len(ActiveRows) :
                     Cardinality({j \in 1..Len(Snapshot) : Snapshot[j] = ActiveRows[i]}) = 1
              /\ idx \in 1..(Len(Snapshot) + 1))
    /\ [](Evaluated => idx = Len(Snapshot) + 1)
    /\ [][idx' # idx => idx' = idx + 1]_vars
    /\ <>(pc = "done" /\ ret # None)

C22_Witness ==
    /\ pc = "done"
    /\ Len(Snapshot) = 2
    /\ \E i \in 1..2 : Snapshot[i].rule_type = "CUSTOM"
    /\ \E i \in 1..2 : Snapshot[i].rule_type = UnknownType
    /\ result.checks = <<>>
    /\ ret[1] = TRUE

----------------------------------------------------------------------------
(* The decision workflow *)

(* C23: the eligibility snapshot of a Decision is frozen at decision time:  *)
(* eligibility_passed equals eligibility_details['is_eligible']; when the   *)
(* Decision is stored both are the outcome of evaluating the supply against *)
(* the rules the request found active; and no later step (a rule edit, a    *)
(* change of the supply or its evidence, a further request) changes the     *)
(* stored values of an existing Decision.                                   *)
C23_SnapshotFrozen ==
    /\ [](\A i \in 1..Len(decisions) :
              decisions[i].eligibility_passed = decisions[i].eligibility_details.is_eligible)
    /\ [][Len(decisions') > Len(decisions) =>
              LET d == decisions'[Len(decisions')]
              IN /\ <<d.eligibility_passed, d.eligibility_details>>
                        = run_eligibility_check_return(EvaluateRules(Snapshot, supply, today))
                 /\ \E T \in table_versions : Snapshot = ActiveRules(T)]_vars
    /\ [][/\ Len(decisions') >= Len(decisions)
          /\ \A i \in 1..Len(decisions) :
                 /\ decisions'[i].eligibility_passed = decisions[i].eligibility_passed
                 /\ decisions'[i].eligibility_details = decisions[i].eligibility_details]_vars

\* a later evaluation of the supply disagrees with the stored snapshot
C23_Witness ==
    /\ pc = "done"
    /\ Len(decisions) = 1
    /\ decisions[1].eligibility_passed = TRUE
    /\ ret[1] = FALSE
    /\ ret[2] # decisions[1].eligibility_details
    /\ supply # [DefaultSupply EXCEPT !.decision_status = supply.decision_status]
    /\ Cardinality(table_versions) > 1

(* C24: the summary of an ineligible result reads 'Ineligible: Failed N     *)
(* blocking checks' with N the number of checks that are blocking and       *)
(* failed; the summary of an eligible result reads 'Eligible: Passed P/T    *)
(* checks' with P the number of passed checks and T the number of checks.   *)
C24_SummaryCounts ==
    pc = "done" =>
        LET cs == result.checks
            N == Cardinality({i \in 1..Len(cs) : cs[i].is_blocking /\ ~cs[i].passed})
            P == Cardinality({i \in 1..Len(cs) : cs[i].passed})
        IN IF ret[1]
           THEN /\ ret[2].summary.kind = "Eligible: Passed {passed}/{total} checks"
                /\ ret[2].summary.nums = <<P, Len(cs)>>
           ELSE /\ ret[2].summary.kind = "Ineligible: Failed {total - passed} blocking checks"
                /\ ret[2].summary.nums = <<N>>

\* the days-remaining values the checks of EXPIRY_DATE rules and the
\* short-shelf-life warning report
ReportedDays ==
    {result.checks[i].message.nums[1] :
        i \in {j \in 1..Len(result.checks) :
                  /\ RecognizedSnapshot[j].rule_type = "EXPIRY_DATE"
                  /\ result.checks[j].message.kind
                         # "Supply is expired (expiry date: {expiry_date})"}}
    \cup {result.warnings[i].nums[1] :
             i \in {j \in 1..Len(result.warnings) :
                       result.warnings[j].kind = ShortShelfLifeKind}}

(* C25: one evaluation observes a single value of today, also when the date *)
(* advances while it runs: a passed EXPIRY_DATE check reports a number of   *)
(* days that is >= 0 and >= the rule's min_shelf_life_days, and all         *)
(* EXPIRY_DATE checks and the short-shelf-life warning report the same      *)
(* number of days.                                                          *)
C25_SingleToday ==
    Evaluated =>
        /\ \A i \in 1..Len(result.checks) :
               (RecognizedSnapshot[i].rule_type = "EXPIRY_DATE" /\ result.checks[i].passed) =>
                   /\ result.checks[i].message.nums[1] >= 0
                   /\ RecognizedSnapshot[i].min_shelf_life_days # None =>
                          result.checks[i].message.nums[1]
                              >= RecognizedSnapshot[i].min_shelf_life_days[1]
        /\ Cardinality(ReportedDays) <= 1

\* the request is over: answered, redirected, refused or failed
RequestEnded == pc \in {"decided", "redirected", "not_found", "failed"}

\* a decision and the supply status that goes with it
Corresponds(decision, status) ==
    \/ decision = "ACCEPTED" /\ status = "ACCEPTED"
    \/ decision = "REVIEW" /\ status = "NEEDS_REVIEW"
    \/ decision = "REJECTED" /\ status = "REJECTED"

(* C26: creating a Decision sets the supply's decision_status from the      *)
(* decision (ACCEPTED -> ACCEPTED, REVIEW -> NEEDS_REVIEW, REJECTED ->      *)
(* REJECTED), so after any sequence of supply_decide requests the status    *)
(* corresponds to the most recently created Decision of the supply.         *)
C26_StatusFollowsLatestDecision ==
    (pc = "decided" /\ decisions # <<>>) =>
        Corresponds(decisions[Len(decisions)].decision, supply.decision_status)

(* C27: is_superseded is true whenever a newer Decision exists for the      *)
(* supply: every Decision but the newest has is_superseded = true, the      *)
(* newest has is_superseded = false.                                        *)
C27_EarlierDecisionsSuperseded ==
    RequestEnded =>
        \A i \in 1..Len(decisions) :
            decisions[i].is_superseded = (i < Len(decisions))

\* a request that is not a POST or lacks a required field
Incomplete(req) ==
    \/ req.method # "POST"
    \/ req.decision = ""
    \/ req.reason_code = ""
    \/ req.justification = ""

(* C28: a supply_decide request that is not a POST, or whose decision,      *)
(* reason_code or justification is missing or empty, creates no Decision,   *)
(* writes no audit entry and leaves the decision_status unchanged: it is    *)
(* redirected at once, and every step that writes one of the three belongs  *)
(* to a complete request; so every Decision has a non-empty justification   *)
(* and a reason code.                                                       *)
C28_IncompleteRequestWritesNothing ==
    /\ [][(pc = "request" /\ Incomplete(posted)) =>
              /\ pc' = "redirected"
              /\ UNCHANGED <<decisions, audit_log, supply>>]_vars
    /\ [][(decisions' # decisions \/ audit_log' # audit_log
               \/ supply'.decision_status # supply.decision_status) =>
              ~Incomplete(posted)]_vars
    /\ [](\A i \in 1..Len(decisions) :
              decisions[i].justification # "" /\ decisions[i].reason_code \in ReasonCodes)

\* a request without justification, redirected, after a decision was stored
C28_Witness ==
    /\ pc = "redirected"
    /\ posted.justification = ""
    /\ Len(decisions) = 1
    /\ Len(audit_log) = 1
    /\ supply.decision_status = "ACCEPTED"

(* C29: the audit trail of decisions is complete: when a request has ended, *)
(* every Decision has exactly one DECISION_MADE audit entry that refers to  *)
(* it; no Decision is left without its entry.                               *)
C29_EveryDecisionAudited ==
    RequestEnded =>
        \A i \in 1..Len(decisions) :
            Cardinality({j \in 1..Len(audit_log) :
                            /\ audit_log[j].action = "DECISION_MADE"
                            /\ audit_log[j].decision = i}) = 1

(* C30: a supply's decision_status changes only together with the creation  *)
(* of a Decision: when a request has ended, a supply whose status is not    *)
(* PENDING_INITIAL has a stored Decision, also after a failure while the    *)
(* Decision was being stored, and the status is one of PENDING_INITIAL,     *)
(* ACCEPTED, NEEDS_REVIEW, REJECTED.                                        *)
C30_StatusOnlyWithDecision ==
    RequestEnded =>
        /\ supply.decision_status # "PENDING_INITIAL" => decisions # <<>>
        /\ supply.decision_status \in {"PENDING_INITIAL", "ACCEPTED", "NEEDS_REVIEW", "REJECTED"}

====
